---- MODULE Spec2Model ----
(***************************************************************************)
(* GET /api/games (src/app/api/games/route.ts) with the MongoDB connection *)
(* singleton (src/unnamed/part_008) and the scraper's getAllGames /        *)
(* processBatch (src/lib/scraper.ts), as one state machine.                *)
(*                                                                         *)
(* One Node.js process: handlers run to their next await without being     *)
(* interrupted, so every action is the code between two awaits of one      *)
(* request (or of one processor call inside a batch).                      *)
(*                                                                         *)
(* Five specifications share the module. Spec is the route with the batch  *)
(* scheduler, a processor call being one step. BrowserSpec is one batch of *)
(* parseGamePage calls, await by await, with the browser each call owns.   *)
(* CacheSpec is the SimpleCache singleton under its callers' operations.   *)
(* EvSpec applies calculateEVForGame to one game. PageSpec is the parsing  *)
(* of one game page's prize table inside parseGamePage.                    *)
(* Each specification moves its own variables and holds the others fixed.  *)
(***************************************************************************)
EXTENDS Integers, Sequences, FiniteSets, TLC

\* ---- bounds ----
\* concurrent GET requests the environment sends
NumReqs == 2
\* Scratch games the catalog endpoint lists while a single request runs
MaxItems == 7

\* parseGamePage calls one Promise.all joins (BrowserSpec)
NumCalls == 2
\* rows of the prize table of a game page (BrowserSpec)
MaxRows == 2
\* the largest ttlMs a caller passes to SimpleCache.set (CacheSpec)
MaxTtl == 2
\* the last instant of the wall clock (CacheSpec)
MaxTime == 3
\* prize tiers of the game calculateEVForGame is given (EvSpec)
MaxTiers == 3

\* ---- program constants ----
MAX_CONCURRENT_BROWSERS == 3

Reqs == 1..NumReqs

\* null, and a present value, of a nullable TypeScript variable
Null == <<>>
Some(x) == <<x>>

VARIABLES
    isRefreshing,   \* route.ts: let isRefreshing
    client,         \* db module: let client (0 = null, r = the client request r made)
    db,             \* db module: let db     (0 = null, r = the Db of client r)
    snapshots,      \* the documents of the MongoDB collection 'games'
    upstream,       \* what the catalog endpoint lists
    clock,          \* the wall clock read by new Date()
    nreq,           \* how many requests arrive in this run
    pc,             \* per request: the await it is suspended at
    collection,     \* GET: let collection (TRUE = a Collection, FALSE = null)
    cachedData,     \* GET: let cachedData
    response,       \* the NextResponse the request returned, if any
    caught,         \* the catch blocks the request has run (what it logged)
    links,          \* getAllGames: gameLinks / processBatch: items
    idx,            \* processBatch: i
    item,           \* processBatch: the state of each processor call's promise
    results,        \* processBatch: results
    payload,        \* GET / performBackgroundRefresh: payload
    stage,          \* parseGamePage, per call: the await it is suspended at
    browser,        \* parseGamePage, per call: let browser, and whether the
                    \* browser it launched still runs
    prizeTiers,     \* parseGamePage, per call: prizeTiers
    settled,        \* per call: how the promise parseGamePage returned settled
    joined,         \* processBatch: how Promise.all(batchPromises) settled
    store,          \* SimpleCache: the Map cache (null = no entry for the key)
    now,            \* Date.now()
    ret,            \* what the last SimpleCache method call returned
    lastSet,        \* per key: the arguments and instant of the last set that
                    \* no invalidate or clear followed (not program state)
    lotteryGame,    \* calculateEVForGame: its argument
    withEV,         \* calculateEVForGame: what it returned, once it has
    page,           \* parseGamePage: priceFromAPI and the rows of the page
    parsed          \* parseGamePage: prizeTiers and the value it returns, once
                    \* the page has been parsed

routeVars == <<isRefreshing, client, db, snapshots, upstream, clock, nreq, pc,
               collection, cachedData, response, caught, links, idx, item,
               results, payload>>

callVars == <<stage, browser, prizeTiers, settled, joined>>

cacheVars == <<store, now, ret, lastSet>>

evVars == <<lotteryGame, withEV>>

pageVars == <<page, parsed>>

vars == <<routeVars, callVars, cacheVars, evVars, pageVars>>

\* ---- the catalog endpoint ----
\* One draw game, then n Scratch games numbered 1..n.
Listing(n) ==
    <<[id |-> 0, gameType |-> "Keno"]>> \o
    [k \in 1..n |-> [id |-> k, gameType |-> "Scratch"]]

\* getAllGameLinks on a 2xx answer: the Scratch entries, mapped to links
ScratchLinks(allGames) ==
    LET scratchGames == SelectSeq(allGames, LAMBDA g : g.gameType = "Scratch")
    IN  [k \in 1..Len(scratchGames) |-> [gameNumber |-> scratchGames[k].id]]

\* how the catalog request ends: a 2xx answer that decodes, fetch() rejecting,
\* a non-2xx answer (the throw of line 51), or response.json() rejecting
FetchOutcomes == {"ok", "network", "status", "json"}

\* getAllGameLinks: the links, or [] from its catch block
getAllGameLinks(how) == IF how = "ok" THEN ScratchLinks(upstream) ELSE <<>>

\* parseGamePage's value when it returns a game
LotteryGame(link) == [gameNumber |-> link.gameNumber]

\* ---- ev-calculator ----
calculateEVForGame(game) == [gameNumber |-> game.gameNumber, withEV |-> TRUE]

calculateEVForGames(games) ==
    [k \in 1..Len(games) |-> calculateEVForGame(games[k])]

\* ---- scraper: processBatch / getAllGames ----
Min(a, b) == IF a < b THEN a ELSE b

\* mutant: the slice has no upper end
Batch_Unbounded(i, n, batchSize) == (i + 1)..n

\* the indices of items.slice(i, i + batchSize)
Batch(i, n, batchSize) == (i + 1)..Min(i + batchSize, n)

\* the value a settled processor promise resolved to
Resolved(link, status) ==
    IF status = "game" THEN Some(LotteryGame(link)) ELSE Null

\* mutant: the kept results come out newest first
FilterNonNull_Reversed(rs) ==
    LET kept == SelectSeq(rs, LAMBDA x : x # Null)
    IN  [k \in 1..Len(kept) |-> kept[Len(kept) + 1 - k][1]]

\* results.filter(game => game !== null)
FilterNonNull(rs) ==
    LET kept == SelectSeq(rs, LAMBDA x : x # Null)
    IN  [k \in 1..Len(kept) |-> kept[k][1]]

\* ---- route: responses ----
CacheResponse(data) ==
    [status |-> 200, source |-> "MongoDB-Cache", body |-> data]

\* mutant: the body is the games array, not the payload
LiveResponse_GamesOnly(p) ==
    [status |-> 200, source |-> "Live-Scrape", body |-> p.games]

LiveResponse(p) ==
    [status |-> 200, source |-> "Live-Scrape", body |-> p]

ErrorResponse ==
    [status |-> 500, source |-> "none",
     body |-> [error |-> "Failed to fetch data"]]

\* mutant: insertOne is not in a try block of its own, so a write error
\* reaches the scrapeError catch
MissResponse_WriteErrorFatal(p, written) ==
    IF written THEN LiveResponse(p) ELSE ErrorResponse

\* the miss branch's answer after insertOne settled: the writeErr catch only
\* logs, the payload is returned either way
MissResponse(p, written) == LiveResponse(p)

\* a stored snapshot of an earlier process lifetime
OldSnapshot ==
    [updatedAt |-> 0, games |-> <<[gameNumber |-> 1, withEV |-> TRUE]>>]

\* findOne({}, {sort: {updatedAt: -1}}): a newest document, or null
Newest(docs) == {d \in docs : \A e \in docs : e.updatedAt <= d.updatedAt}

\* the request took the hit branch of GET: its task is the background refresh
IsBackground(r) == cachedData[r] # Null

\* ---- initial state ----
InitCommon ==
    /\ isRefreshing = FALSE
    /\ client = 0
    /\ db = 0
    /\ snapshots \in {{}, {OldSnapshot}}
    /\ clock = 1
    /\ pc = [r \in Reqs |-> "idle"]
    /\ collection = [r \in Reqs |-> FALSE]
    /\ cachedData = [r \in Reqs |-> Null]
    /\ response = [r \in Reqs |-> Null]
    /\ caught = [r \in Reqs |-> {}]
    /\ links = [r \in Reqs |-> <<>>]
    /\ idx = [r \in Reqs |-> 0]
    /\ item = [r \in Reqs |-> <<>>]
    /\ results = [r \in Reqs |-> <<>>]
    /\ payload = [r \in Reqs |-> Null]

\* the catalogs tried while several requests run at once: no Scratch game, or
\* one (the route's logic tells only an empty list from a non-empty one)
SmallCatalogs == {Listing(0), Listing(1)}

\* the parseGamePage calls of the batch BrowserSpec follows
Calls == 1..NumCalls

\* the keys and the values SimpleCache's callers use (CacheSpec)
CacheKeys == {"k1", "k2"}
CacheValues == {"v1", "v2"}

\* every call of the batch has been made and awaits puppeteer.launch
CallsStarted ==
    /\ stage = [c \in Calls |-> "launch"]
    /\ browser = [c \in Calls |-> "undefined"]
    /\ prizeTiers = [c \in Calls |-> <<>>]
    /\ settled = [c \in Calls |-> "pending"]
    /\ joined = "pending"

\* new SimpleCache(): an empty Map; no method has been called
CacheEmpty ==
    /\ store = [k \in CacheKeys |-> Null]
    /\ now = 0
    /\ ret = [op |-> "new", key |-> "k1", value |-> Null]
    /\ lastSet = [k \in CacheKeys |-> Null]

\* calculateEVForGame has not been called
EvIdle ==
    /\ lotteryGame = [gameNumber |-> 1, price |-> 0, prizeTiers |-> <<>>]
    /\ withEV = Null

\* no page has been fetched
PageIdle ==
    /\ page = [priceFromAPI |-> Null, rows |-> <<>>]
    /\ parsed = Null

\* no request arrives: the route's state stays as the module load left it
RouteIdle ==
    /\ InitCommon
    /\ snapshots = {}
    /\ nreq = 0
    /\ upstream = Listing(0)

\* Either one request over a catalog of up to MaxItems games (several
\* batches), or NumReqs concurrent requests over a small catalog.
Init ==
    /\ InitCommon
    /\ \/ nreq = 1 /\ \E n \in 0..MaxItems : upstream = Listing(n)
       \/ nreq = NumReqs /\ upstream \in SmallCatalogs
    /\ CallsStarted
    /\ CacheEmpty
    /\ EvIdle
    /\ PageIdle

\* ---- route: the parts of GET and performBackgroundRefresh ----
\* mutant: the isRefreshing check is missing
RefreshInProgress_Never == FALSE

\* if (isRefreshing): a refresh is already running
RefreshInProgress == isRefreshing

\* mutant: the lock is released at the end of the try block, not in finally
LockAfterRefresh_NoFinally(failed) == failed

\* the finally block of performBackgroundRefresh: the value isRefreshing gets,
\* whether the try block completed or its catch block ran
LockAfterRefresh(failed) == FALSE

\* mutant: the catch block logs and rethrows
LinksErrorEscapes_Rethrows(how) == how # "ok"

\* mutant: response.json() is awaited after the try block
LinksErrorEscapes_DecodeOutsideTry(how) == how = "json"

\* whether getAllGameLinks lets its fetch / status / decoding error out (the
\* try block holds all three, and the catch block returns)
LinksErrorEscapes(how) == FALSE

\* new Date(): a later instant than the last one read
Now == {clock + 1}

\* mutant: the refresh has no catch block, and its error becomes the answer
Throw_Surfaces(r, c) ==
    /\ pc' = [pc EXCEPT ![r] = "done"]
    /\ caught' = [caught EXCEPT ![r] =
                     c \cup {IF IsBackground(r) THEN "err" ELSE "scrapeError"}]
    /\ response' = [response EXCEPT ![r] = Some(ErrorResponse)]
    /\ isRefreshing' = IF IsBackground(r) THEN FALSE ELSE isRefreshing
    /\ UNCHANGED <<clock, payload>>

\* getAllGames rejected; c is what the request has logged so far. Live: the
\* scrapeError catch answers 500. Background: the err catch logs, the finally
\* block releases the lock.
Throw(r, c) ==
    /\ pc' = [pc EXCEPT ![r] = "done"]
    /\ IF IsBackground(r)
       THEN /\ caught' = [caught EXCEPT ![r] = c \cup {"err"}]
            /\ isRefreshing' = LockAfterRefresh(TRUE)
            /\ UNCHANGED response
       ELSE /\ caught' = [caught EXCEPT ![r] = c \cup {"scrapeError"}]
            /\ response' = [response EXCEPT ![r] = Some(ErrorResponse)]
            /\ UNCHANGED isRefreshing
    /\ UNCHANGED <<clock, payload>>

\* mutant: a payload without games is not written
Cycle_SkipsEmpty(r, rs) ==
    \E t \in Now :
        LET rawGames == FilterNonNull(rs)
            gamesWithEV == calculateEVForGames(rawGames)
            p == [updatedAt |-> t, games |-> gamesWithEV]
        IN  /\ clock' = t
            /\ payload' = [payload EXCEPT ![r] = Some(p)]
            /\ IF (IsBackground(r) \/ collection[r]) /\ Len(gamesWithEV) > 0
               THEN /\ pc' = [pc EXCEPT ![r] = "insert"]
                    /\ UNCHANGED response
               ELSE /\ pc' = [pc EXCEPT ![r] = "done"]
                    /\ response' = [response EXCEPT ![r] =
                                        IF IsBackground(r)
                                        THEN @
                                        ELSE Some(LiveResponse(p))]

\* getAllGames returned rs (processBatch's results): filter, add the EV
\* fields, build the payload; then insertOne is awaited, or (live, no
\* collection) the payload is the response.
Cycle(r, rs) ==
    \E t \in Now :
        LET rawGames == FilterNonNull(rs)
            gamesWithEV == calculateEVForGames(rawGames)
            p == [updatedAt |-> t, games |-> gamesWithEV]
        IN  /\ clock' = t
            /\ payload' = [payload EXCEPT ![r] = Some(p)]
            /\ IF IsBackground(r) \/ collection[r]
               THEN /\ pc' = [pc EXCEPT ![r] = "insert"]
                    /\ UNCHANGED response
               ELSE /\ pc' = [pc EXCEPT ![r] = "done"]
                    /\ response' = [response EXCEPT ![r] = Some(LiveResponse(p))]

\* mutant: the hit branch awaits the refresh before it answers
Decide_AwaitsRefresh(r, data) ==
    /\ pc' = [pc EXCEPT ![r] = IF data # Null THEN "after" ELSE "fetch"]
    /\ UNCHANGED response

\* mutant: a snapshot older than one tick of the clock counts as a miss
Decide_TtlChecked(r, data) ==
    IF data # Null /\ clock - data[1].updatedAt <= 1
    THEN /\ response' = [response EXCEPT ![r] = Some(CacheResponse(data[1]))]
         /\ pc' = [pc EXCEPT ![r] = "after"]
    ELSE /\ pc' = [pc EXCEPT ![r] = "fetch"]
         /\ UNCHANGED response

\* GET after its first try/catch: the hit branch registers the refresh with
\* after() and answers from the cache; the miss branch calls getAllGames,
\* which runs to its fetch.
Decide(r, data) ==
    IF data # Null
    THEN /\ response' = [response EXCEPT ![r] = Some(CacheResponse(data[1]))]
         /\ pc' = [pc EXCEPT ![r] = "after"]
    ELSE /\ pc' = [pc EXCEPT ![r] = "fetch"]
         /\ UNCHANGED response

\* A request arrives: GET calls getCollection, which returns the cached Db's
\* collection, or calls connect(), which makes a client and awaits its
\* connect(). Requests are numbered in their order of arrival.
Arrive(r) ==
    /\ pc[r] = "idle"
    /\ r <= nreq
    /\ r > 1 => pc[r - 1] # "idle"
    /\ IF db # 0
       THEN /\ collection' = [collection EXCEPT ![r] = TRUE]
            /\ pc' = [pc EXCEPT ![r] = "findOne"]
            /\ UNCHANGED db
       ELSE IF client = 0
            THEN /\ pc' = [pc EXCEPT ![r] = "connect"]
                 /\ UNCHANGED <<db, collection>>
            ELSE /\ db' = client
                 /\ collection' = [collection EXCEPT ![r] = TRUE]
                 /\ pc' = [pc EXCEPT ![r] = "findOne"]
    /\ UNCHANGED <<isRefreshing, client, snapshots, upstream, clock, nreq,
                   cachedData, response, caught, links, idx, item, results,
                   payload>>
    /\ UNCHANGED <<callVars, cacheVars, evVars, pageVars>>

\* tempClient.connect() settles: the client and its Db are kept and findOne
\* is awaited, or connect() rethrows and GET's catch block leaves collection
\* null.
ConnectDone(r) ==
    /\ pc[r] = "connect"
    /\ \E ok \in BOOLEAN :
        IF ok
        THEN /\ client' = r
             /\ db' = r
             /\ collection' = [collection EXCEPT ![r] = TRUE]
             /\ pc' = [pc EXCEPT ![r] = "findOne"]
             /\ UNCHANGED <<caught, response>>
        ELSE /\ client' = 0
             /\ caught' = [caught EXCEPT ![r] = @ \cup {"dbError"}]
             /\ Decide(r, Null)
             /\ UNCHANGED <<db, collection>>
    /\ UNCHANGED <<isRefreshing, snapshots, upstream, clock, nreq, cachedData,
                   links, idx, item, results, payload>>
    /\ UNCHANGED <<callVars, cacheVars, evVars, pageVars>>

\* collection.findOne settles: a newest snapshot, null, or an error caught
\* by GET's catch block (cachedData stays null, collection stays set).
FindOneDone(r) ==
    /\ pc[r] = "findOne"
    /\ \E ok \in BOOLEAN :
        \E data \in IF ok /\ snapshots # {}
                    THEN {Some(d) : d \in Newest(snapshots)}
                    ELSE {Null} :
            /\ cachedData' = [cachedData EXCEPT ![r] = data]
            /\ caught' = [caught EXCEPT ![r] =
                             IF ok THEN @ ELSE @ \cup {"dbError"}]
            /\ Decide(r, data)
    /\ UNCHANGED <<isRefreshing, client, db, snapshots, upstream, clock, nreq,
                   collection, links, idx, item, results, payload>>
    /\ UNCHANGED <<callVars, cacheVars, evVars, pageVars>>

\* mutant: the early return sits inside the try block, so finally releases a
\* lock another refresh holds
SkipRefresh_Releases(r) ==
    /\ pc' = [pc EXCEPT ![r] = "done"]
    /\ isRefreshing' = FALSE

\* performBackgroundRefresh's early returns (no collection; a refresh already
\* in progress): nothing but the return
SkipRefresh(r) ==
    /\ pc' = [pc EXCEPT ![r] = "done"]
    /\ UNCHANGED isRefreshing

\* after() runs performBackgroundRefresh once the response is sent: it
\* returns at once without a collection or while a refresh is running,
\* otherwise takes the lock and calls getAllGames, which runs to its fetch.
BackgroundStart(r) ==
    /\ pc[r] = "after"
    /\ IF ~collection[r] \/ RefreshInProgress
       THEN SkipRefresh(r)
       ELSE /\ isRefreshing' = TRUE
            /\ pc' = [pc EXCEPT ![r] = "fetch"]
    /\ UNCHANGED <<client, db, snapshots, upstream, clock, nreq, collection,
                   cachedData, response, caught, links, idx, item, results,
                   payload>>
    /\ UNCHANGED <<callVars, cacheVars, evVars, pageVars>>

\* mutant: the calls of a batch are awaited one after the other, so only the
\* first one is started
StartBatch_OneByOne(r, i, n) ==
    /\ item' = [item EXCEPT ![r] =
                   [k \in 1..n |->
                       IF k = i + 1
                       THEN "running"
                       ELSE IF k <= i THEN @[k] ELSE "pending"]]
    /\ pc' = [pc EXCEPT ![r] = "batch"]

\* processBatch starts the processor calls of items.slice(i, i + batchSize)
\* of the n items and awaits Promise.all of them
StartBatch(r, i, n) ==
    /\ item' = [item EXCEPT ![r] =
                   [k \in 1..n |->
                       IF k \in Batch(i, n, MAX_CONCURRENT_BROWSERS)
                       THEN "running"
                       ELSE IF k <= i THEN @[k] ELSE "pending"]]
    /\ pc' = [pc EXCEPT ![r] = "batch"]

\* getAllGameLinks settles (the catalog, or [] after an error); processBatch
\* starts its first batch, or with no items getAllGames returns [] at once.
FetchDone(r) ==
    /\ pc[r] = "fetch"
    /\ \E how \in FetchOutcomes :
        LET ok == how = "ok"
            gameLinks == getAllGameLinks(how)
        IN  /\ links' = [links EXCEPT ![r] = gameLinks]
            /\ IF ~ok /\ LinksErrorEscapes(how)
               THEN /\ Throw(r, caught[r] \cup {"linksError"})
                    /\ UNCHANGED item
               ELSE /\ caught' = [caught EXCEPT ![r] =
                                IF ok THEN @ ELSE @ \cup {"linksError"}]
                    /\ IF Len(gameLinks) = 0
                       THEN /\ Cycle(r, <<>>)
                            /\ UNCHANGED <<isRefreshing, item>>
                       ELSE /\ StartBatch(r, 0, Len(gameLinks))
                            /\ UNCHANGED <<isRefreshing, response, clock,
                                           payload>>
    /\ UNCHANGED <<client, db, snapshots, upstream, nreq, collection,
                   cachedData, idx, results>>
    /\ UNCHANGED <<callVars, cacheVars, evVars, pageVars>>

\* One processor call (parseGamePage behind the arrow function) settles: with
\* a game, with null, or rejected (browser.close() throwing in its catch
\* block). Nothing cancels the calls of a batch whose Promise.all rejected.
Settle(r, k) ==
    /\ k \in DOMAIN item[r]
    /\ item[r][k] = "running"
    /\ \E outcome \in {"game", "null", "rejected"} :
        item' = [item EXCEPT ![r][k] = outcome]
    /\ UNCHANGED <<isRefreshing, client, db, snapshots, upstream, clock, nreq,
                   pc, collection, cachedData, response, caught, links, idx,
                   results, payload>>
    /\ UNCHANGED <<callVars, cacheVars, evVars, pageVars>>

\* mutant: the batch is joined with Promise.race, which settles with the
\* first call that settles
AllFulfilled_Race(r, batch) ==
    \E k \in batch : item[r][k] \in {"game", "null"}

\* await Promise.all(batchPromises) fulfils: every call of the batch has
\* resolved
AllFulfilled(r, batch) ==
    \A k \in batch : item[r][k] \in {"game", "null"}

\* mutant: results = batchResults, the earlier batches are lost
Pushed_Overwrite(rs, batchResults) == batchResults

\* results.push(...batchResults)
Pushed(rs, batchResults) == rs \o batchResults

\* Promise.all of the batch fulfils with the calls' values in the order of
\* the batch: results.push(...batchResults), then the next batch starts, or
\* processBatch returns and the cycle goes on.
BatchDone(r) ==
    LET n == Len(links[r])
        batch == Batch(idx[r], n, MAX_CONCURRENT_BROWSERS)
        batchResults == [j \in 1..Cardinality(batch) |->
                            Resolved(links[r][idx[r] + j], item[r][idx[r] + j])]
        pushed == Pushed(results[r], batchResults)
        i == idx[r] + MAX_CONCURRENT_BROWSERS
    IN  /\ pc[r] = "batch"
        /\ AllFulfilled(r, batch)
        /\ results' = [results EXCEPT ![r] = pushed]
        /\ idx' = [idx EXCEPT ![r] = i]
        /\ IF i < n
           THEN /\ StartBatch(r, i, n)
                /\ UNCHANGED <<response, clock, payload>>
           ELSE /\ Cycle(r, pushed)
                /\ UNCHANGED item
        /\ UNCHANGED <<isRefreshing, client, db, snapshots, upstream, nreq,
                       collection, cachedData, caught, links>>
        /\ UNCHANGED <<callVars, cacheVars, evVars, pageVars>>

\* Promise.all of the batch rejects as soon as one call has rejected:
\* processBatch and getAllGames throw.
BatchReject(r) ==
    /\ pc[r] = "batch"
    /\ \E k \in Batch(idx[r], Len(links[r]), MAX_CONCURRENT_BROWSERS) :
        item[r][k] = "rejected"
    /\ Throw(r, caught[r])
    /\ UNCHANGED <<client, db, snapshots, upstream, nreq, collection,
                   cachedData, links, idx, item, results>>
    /\ UNCHANGED <<callVars, cacheVars, evVars, pageVars>>

\* mutant: the stored document is brought up to date field by field, and the
\* write ends after updatedAt
insertOne_FieldByField(docs, doc) ==
    IF docs = {}
    THEN {doc}
    ELSE {[d EXCEPT !.updatedAt = doc.updatedAt] : d \in docs}

\* collection.insertOne(doc), fulfilled: the collection has one more
\* document, the whole of doc; no stored document is changed or removed
insertOne(docs, doc) == docs \cup {doc}

\* collection.insertOne(payload) settles. Live: a write error is caught and
\* the payload is the response either way. Background: a write error goes to
\* the err catch, and the finally block releases the lock.
InsertDone(r) ==
    /\ pc[r] = "insert"
    /\ \E ok \in BOOLEAN :
        /\ snapshots' = IF ok
                        THEN insertOne(snapshots, payload[r][1])
                        ELSE snapshots
        /\ IF IsBackground(r)
           THEN /\ isRefreshing' = LockAfterRefresh(~ok)
                /\ caught' = [caught EXCEPT ![r] =
                                 IF ok THEN @ ELSE @ \cup {"err"}]
                /\ UNCHANGED response
           ELSE /\ response' = [response EXCEPT ![r] =
                                   Some(MissResponse(payload[r][1], ok))]
                /\ caught' = [caught EXCEPT ![r] =
                                 IF ok THEN @ ELSE @ \cup {"writeErr"}]
                /\ UNCHANGED isRefreshing
    /\ pc' = [pc EXCEPT ![r] = "done"]
    /\ UNCHANGED <<client, db, upstream, clock, nreq, collection, cachedData,
                   links, idx, item, results, payload>>
    /\ UNCHANGED <<callVars, cacheVars, evVars, pageVars>>

Next ==
    \E r \in Reqs :
        \/ Arrive(r)
        \/ ConnectDone(r)
        \/ FindOneDone(r)
        \/ BackgroundStart(r)
        \/ FetchDone(r)
        \/ \E k \in 1..MaxItems + 1 : Settle(r, k)
        \/ BatchDone(r)
        \/ BatchReject(r)
        \/ InsertDone(r)

Spec == Init /\ [][Next]_vars

\* Every await settles and the event loop runs every continuation that is
\* ready: no request stays suspended for ever.
FairSpec == Spec /\ WF_vars(Next)

\* ======================================================================
\* BrowserSpec: the parseGamePage calls of one batch, await by await
\* ======================================================================

\* one row of the prize table as the row callback sees it: whether its three
\* regular expressions matched, and the numbers parsed out of it
Rows ==
    [matched : BOOLEAN, prizeValue : 0..1, odds : 0..1, prizesAtStart : 0..1]

\* the prize tables a game page can hold
Pages == UNION {[1..n -> Rows] : n \in 0..MaxRows}

\* the rows the callback pushes to prizeTiers, in page order
AcceptedTiers(rows) ==
    LET kept == SelectSeq(rows, LAMBDA row :
                    /\ row.matched
                    /\ row.prizeValue > 0
                    /\ row.odds > 0
                    /\ row.prizesAtStart > 0)
    IN  [k \in 1..Len(kept) |->
            [prizeValue |-> kept[k].prizeValue, odds |-> kept[k].odds,
             prizesAtStart |-> kept[k].prizesAtStart]]

\* the await that follows each await of the page set-up
NextStage(st) ==
    CASE st = "newPage" -> "setUserAgent"
      [] st = "setUserAgent" -> "goto"
      [] st = "goto" -> "waitForSelector"
      [] st = "waitForSelector" -> "content"

\* what a browser.close() that rejected can have left of the browser
AfterFailedClose(b) == IF b = "closed" THEN {"closed"} ELSE {"open", "closed"}

\* an error reached the catch block of call c, whose browser is b: with a
\* browser, browser.close() is awaited; without one, null is returned
CatchBlock(c, b) ==
    IF b = "undefined"
    THEN /\ stage' = [stage EXCEPT ![c] = "settled"]
         /\ settled' = [settled EXCEPT ![c] = "null"]
    ELSE /\ stage' = [stage EXCEPT ![c] = "catchClose"]
         /\ UNCHANGED settled

\* puppeteer.launch settles
LaunchDone(c) ==
    /\ stage[c] = "launch"
    /\ \E ok \in BOOLEAN :
        IF ok
        THEN /\ browser' = [browser EXCEPT ![c] = "open"]
             /\ stage' = [stage EXCEPT ![c] = "newPage"]
             /\ UNCHANGED settled
        ELSE /\ CatchBlock(c, browser[c])
             /\ UNCHANGED browser
    /\ UNCHANGED <<prizeTiers, joined, routeVars, cacheVars,
                   evVars, pageVars>>

\* browser.newPage, page.setUserAgent or page.goto settles; a failure goes
\* to the catch block
PageStepDone(c) ==
    /\ stage[c] \in {"newPage", "setUserAgent", "goto"}
    /\ \E ok \in BOOLEAN :
        IF ok
        THEN /\ stage' = [stage EXCEPT ![c] = NextStage(stage[c])]
             /\ UNCHANGED settled
        ELSE CatchBlock(c, browser[c])
    /\ UNCHANGED <<browser, prizeTiers, joined, routeVars, cacheVars,
                   evVars, pageVars>>

\* page.waitForSelector settles: its own .catch only warns, so the call goes
\* on to page.content either way
WaitForSelectorDone(c) ==
    /\ stage[c] = "waitForSelector"
    /\ stage' = [stage EXCEPT ![c] = NextStage(stage[c])]
    /\ UNCHANGED <<browser, prizeTiers, settled, joined, routeVars, cacheVars,
                   evVars, pageVars>>

\* page.content settles; the page is parsed without an await and
\* browser.close() is awaited. A failure of page.content or of the parsing
\* goes to the catch block.
ContentDone(c) ==
    /\ stage[c] = "content"
    /\ \E ok \in BOOLEAN, rows \in Pages :
        IF ok
        THEN /\ prizeTiers' = [prizeTiers EXCEPT ![c] = AcceptedTiers(rows)]
             /\ stage' = [stage EXCEPT ![c] = "close"]
             /\ UNCHANGED settled
        ELSE /\ CatchBlock(c, browser[c])
             /\ UNCHANGED prizeTiers
    /\ UNCHANGED <<browser, joined, routeVars, cacheVars,
                   evVars, pageVars>>

\* the browser.close() of line 243 settles: the call returns null for zero
\* tiers and the game otherwise; a rejection goes to the catch block, which
\* awaits browser.close() again
CloseDone(c) ==
    /\ stage[c] = "close"
    /\ \E ok \in BOOLEAN :
        IF ok
        THEN /\ browser' = [browser EXCEPT ![c] = "closed"]
             /\ stage' = [stage EXCEPT ![c] = "settled"]
             /\ settled' = [settled EXCEPT ![c] =
                                IF Len(prizeTiers[c]) = 0 THEN "null" ELSE "game"]
        ELSE \E left \in AfterFailedClose(browser[c]) :
                /\ browser' = [browser EXCEPT ![c] = left]
                /\ CatchBlock(c, left)
    /\ UNCHANGED <<prizeTiers, joined, routeVars, cacheVars,
                   evVars, pageVars>>

\* the browser.close() of the catch block (line 263) settles: null is
\* returned, or its rejection leaves the async function and rejects the
\* promise of the call
CatchCloseDone(c) ==
    /\ stage[c] = "catchClose"
    /\ \E ok \in BOOLEAN :
        IF ok
        THEN /\ browser' = [browser EXCEPT ![c] = "closed"]
             /\ settled' = [settled EXCEPT ![c] = "null"]
        ELSE \E left \in AfterFailedClose(browser[c]) :
                /\ browser' = [browser EXCEPT ![c] = left]
                /\ settled' = [settled EXCEPT ![c] = "rejected"]
    /\ stage' = [stage EXCEPT ![c] = "settled"]
    /\ UNCHANGED <<prizeTiers, joined, routeVars, cacheVars,
                   evVars, pageVars>>

\* Promise.all(batchPromises) settles: fulfilled once every call has
\* resolved, rejected as soon as one call has rejected (the other calls go
\* on; processBatch, and with it getAllGames, throws)
Join ==
    /\ joined = "pending"
    /\ \/ /\ \A c \in Calls : settled[c] \in {"game", "null"}
          /\ joined' = "fulfilled"
       \/ /\ \E c \in Calls : settled[c] = "rejected"
          /\ joined' = "rejected"
    /\ UNCHANGED <<stage, browser, prizeTiers, settled, routeVars, cacheVars,
                   evVars, pageVars>>

BrowserInit == RouteIdle /\ CallsStarted /\ CacheEmpty /\ EvIdle /\ PageIdle

BrowserNext ==
    \/ \E c \in Calls :
          \/ LaunchDone(c)
          \/ PageStepDone(c)
          \/ WaitForSelectorDone(c)
          \/ ContentDone(c)
          \/ CloseDone(c)
          \/ CatchCloseDone(c)
    \/ Join

BrowserSpec == BrowserInit /\ [][BrowserNext]_vars

\* ======================================================================
\* CacheSpec: the SimpleCache singleton. Its methods have no await: each
\* call is one step.
\* ======================================================================

\* the CacheEntry that set builds
CacheEntry(data, t, ttlMs) ==
    [data |-> data, timestamp |-> t, expiresAt |-> t + ttlMs]

\* mutant: an entry expires when the clock reaches expiresAt
Expired_AtDeadline(entry, t) == t >= entry.expiresAt

\* Date.now() > entry.expiresAt
Expired(entry, t) == t > entry.expiresAt

\* what a method call returned
Returned(op, k, value) == [op |-> op, key |-> k, value |-> value]

\* cache.get(key): null without an entry; an expired entry is deleted and
\* null returned; otherwise the entry's data
get(k) ==
    /\ IF store[k] = Null
       THEN /\ ret' = Returned("get", k, Null)
            /\ UNCHANGED store
       ELSE IF Expired(store[k][1], now)
            THEN /\ store' = [store EXCEPT ![k] = Null]
                 /\ ret' = Returned("get", k, Null)
            ELSE /\ ret' = Returned("get", k, Some(store[k][1].data))
                 /\ UNCHANGED store
    /\ UNCHANGED <<now, lastSet, routeVars, callVars,
                   evVars, pageVars>>

\* cache.set(key, data, ttlMs): the Map's entry for the key becomes a new one
set(k, data, ttlMs) ==
    /\ store' = [store EXCEPT ![k] = Some(CacheEntry(data, now, ttlMs))]
    /\ ret' = Returned("set", k, Null)
    /\ lastSet' = [lastSet EXCEPT ![k] =
                       Some([data |-> data, at |-> now, ttlMs |-> ttlMs])]
    /\ UNCHANGED <<now, routeVars, callVars,
                   evVars, pageVars>>

\* cache.has(key)
has(k) ==
    /\ IF store[k] = Null
       THEN /\ ret' = Returned("has", k, Some(FALSE))
            /\ UNCHANGED store
       ELSE IF Expired(store[k][1], now)
            THEN /\ store' = [store EXCEPT ![k] = Null]
                 /\ ret' = Returned("has", k, Some(FALSE))
            ELSE /\ ret' = Returned("has", k, Some(TRUE))
                 /\ UNCHANGED store
    /\ UNCHANGED <<now, lastSet, routeVars, callVars,
                   evVars, pageVars>>

\* cache.invalidate(key)
invalidate(k) ==
    /\ store' = [store EXCEPT ![k] = Null]
    /\ ret' = Returned("invalidate", k, Null)
    /\ lastSet' = [lastSet EXCEPT ![k] = Null]
    /\ UNCHANGED <<now, routeVars, callVars,
                   evVars, pageVars>>

\* cache.clear()
clear ==
    /\ store' = [k \in CacheKeys |-> Null]
    /\ ret' = Returned("clear", "k1", Null)
    /\ lastSet' = [k \in CacheKeys |-> Null]
    /\ UNCHANGED <<now, routeVars, callVars,
                   evVars, pageVars>>

\* cache.getMetadata(key): the entry's age and remaining time, expired or not
getMetadata(k) ==
    /\ ret' = Returned("getMetadata", k,
                       IF store[k] = Null
                       THEN Null
                       ELSE Some([age |-> now - store[k][1].timestamp,
                                  ttl |-> store[k][1].expiresAt - now]))
    /\ UNCHANGED <<store, now, lastSet, routeVars, callVars,
                   evVars, pageVars>>

\* cache.cleanup(): every expired entry is deleted
cleanup ==
    /\ store' = [k \in CacheKeys |->
                     IF store[k] # Null /\ Expired(store[k][1], now)
                     THEN Null
                     ELSE store[k]]
    /\ ret' = Returned("cleanup", "k1", Null)
    /\ UNCHANGED <<now, lastSet, routeVars, callVars,
                   evVars, pageVars>>

\* the wall clock advances between two calls
Tick ==
    /\ now < MaxTime
    /\ now' = now + 1
    /\ UNCHANGED <<store, ret, lastSet, routeVars, callVars,
                   evVars, pageVars>>

CacheInit == RouteIdle /\ CallsStarted /\ CacheEmpty /\ EvIdle /\ PageIdle

CacheNext ==
    \/ \E k \in CacheKeys :
          \/ get(k)
          \/ \E data \in CacheValues, ttlMs \in 0..MaxTtl : set(k, data, ttlMs)
          \/ has(k)
          \/ invalidate(k)
          \/ getMetadata(k)
    \/ clear
    \/ cleanup
    \/ Tick

CacheSpec == CacheInit /\ [][CacheNext]_vars

\* ======================================================================
\* EvSpec: calculateEVForGame on one game. It has no await: one step.
\* Numbers are exact fractions [num, den]; a division by zero gives a
\* fraction whose den is 0 (JavaScript's Infinity or NaN).
\* ======================================================================

RECURSIVE GCD(_, _)
GCD(a, b) == IF b = 0 THEN a ELSE GCD(b, a % b)

Abs(x) == IF x < 0 THEN -x ELSE x

\* the number n / d in lowest terms
Ratio(n, d) ==
    IF d = 0
    THEN [num |-> IF n > 0 THEN 1 ELSE IF n < 0 THEN -1 ELSE 0, den |-> 0]
    ELSE LET g == GCD(Abs(n), Abs(d))
             sign == IF d < 0 THEN -1 ELSE 1
         IN  [num |-> sign * (n \div g), den |-> sign * (d \div g)]

\* an integer as a number
Num(n) == [num |-> n, den |-> 1]

\* x / y
Quotient(x, y) == Ratio(x.num * y.den, x.den * y.num)

\* x - y
Minus(x, y) == Ratio(x.num * y.den - y.num * x.den, x.den * y.den)

\* estimates.sort((a, b) => a - b): ascending, by insertion
RECURSIVE SortAscending(_)
SortAscending(xs) ==
    IF Len(xs) <= 1
    THEN xs
    ELSE LET rest == SortAscending(Tail(xs))
             before == SelectSeq(rest, LAMBDA y : y < Head(xs))
             after == SelectSeq(rest, LAMBDA y : y >= Head(xs))
         IN  before \o <<Head(xs)>> \o after

\* mutant: the upper middle value is returned for an even count too
Median_NoAverage(estimates) ==
    IF Len(estimates) = 0
    THEN Num(0)
    ELSE Num(SortAscending(estimates)[(Len(estimates) \div 2) + 1])

\* the median both estimators end with: 0 for no estimate; else the sorted
\* estimates' middle one, or the mean of the two middle ones
Median(estimates) ==
    IF Len(estimates) = 0
    THEN Num(0)
    ELSE LET sorted == SortAscending(estimates)
             mid == Len(estimates) \div 2
         IN  IF Len(estimates) % 2 = 0
             THEN Ratio(sorted[mid] + sorted[mid + 1], 2)
             ELSE Num(sorted[mid + 1])

estimateTotalTickets(tiers) ==
    LET usable == SelectSeq(tiers, LAMBDA tier :
                                tier.odds > 0 /\ tier.prizesAtStart > 0)
    IN  Median([k \in 1..Len(usable) |->
                   usable[k].odds * usable[k].prizesAtStart])

estimateRemainingTickets(tiers) ==
    LET usable == SelectSeq(tiers, LAMBDA tier :
                                tier.odds > 0 /\ tier.prizesRemaining > 0)
    IN  Median([k \in 1..Len(usable) |->
                   usable[k].odds * usable[k].prizesRemaining])

RECURSIVE calculateInitialPrizePool(_)
calculateInitialPrizePool(tiers) ==
    IF Len(tiers) = 0
    THEN 0
    ELSE calculateInitialPrizePool(SubSeq(tiers, 1, Len(tiers) - 1))
         + tiers[Len(tiers)].prizeValue * tiers[Len(tiers)].prizesAtStart

\* mutant: the remaining pool counts the prizes at start
RECURSIVE calculateRemainingPrizePool_AtStart(_)
calculateRemainingPrizePool_AtStart(tiers) ==
    IF Len(tiers) = 0
    THEN 0
    ELSE calculateRemainingPrizePool_AtStart(SubSeq(tiers, 1, Len(tiers) - 1))
         + tiers[Len(tiers)].prizeValue * tiers[Len(tiers)].prizesAtStart

RECURSIVE calculateRemainingPrizePool(_)
calculateRemainingPrizePool(tiers) ==
    IF Len(tiers) = 0
    THEN 0
    ELSE calculateRemainingPrizePool(SubSeq(tiers, 1, Len(tiers) - 1))
         + tiers[Len(tiers)].prizeValue * tiers[Len(tiers)].prizesRemaining

calculateInitialEV(g, totalTickets) ==
    IF totalTickets.num = 0
    THEN Num(0)
    ELSE Quotient(Num(calculateInitialPrizePool(g.prizeTiers)), totalTickets)

calculateCurrentEV(g, remainingTickets) ==
    IF remainingTickets.num = 0
    THEN Num(0)
    ELSE Quotient(Num(calculateRemainingPrizePool(g.prizeTiers)),
                  remainingTickets)

\* mutant: the division is not guarded by game.price > 0
EvPerDollar_Unguarded(currentEV, price) == Quotient(currentEV, Num(price))

\* game.price > 0 ? currentEV / game.price : 0
EvPerDollar(currentEV, price) ==
    IF price > 0 THEN Quotient(currentEV, Num(price)) ELSE Num(0)

\* calculateEVForGame in full: the game's own fields and the seven EV fields
GameWithEV(g) ==
    LET estimatedTotalTickets == estimateTotalTickets(g.prizeTiers)
        estimatedRemainingTickets == estimateRemainingTickets(g.prizeTiers)
        initialEV == calculateInitialEV(g, estimatedTotalTickets)
        currentEV == calculateCurrentEV(g, estimatedRemainingTickets)
    IN  [gameNumber |-> g.gameNumber,
         price |-> g.price,
         prizeTiers |-> g.prizeTiers,
         initialEV |-> initialEV,
         currentEV |-> currentEV,
         netInitialEV |-> Minus(initialEV, Num(g.price)),
         netCurrentEV |-> Minus(currentEV, Num(g.price)),
         evPerDollar |-> EvPerDollar(currentEV, g.price),
         estimatedTotalTickets |-> estimatedTotalTickets,
         estimatedRemainingTickets |-> estimatedRemainingTickets]

\* parseGamePage's price: priceFromAPI || 0
PriceOrZero(priceFromAPI) ==
    IF priceFromAPI = Null \/ priceFromAPI = Some(0) THEN 0 ELSE priceFromAPI[1]

\* the prices the catalog gives: none, 0, or a ticket price
ApiPrices == {Null, Some(0), Some(2)}

\* the prize tiers games are made of: a prize, odds (0: none parsed), and
\* the prizes at start with those remaining
TierValues ==
    {[prizeValue |-> v, odds |-> o, prizesAtStart |-> c[1],
      prizesRemaining |-> c[2]] :
        v \in {1, 5}, o \in {0, 1, 3},
        c \in {<<0, 0>>, <<1, 1>>, <<2, 0>>, <<2, 1>>}}

\* the tier lists of the games calculateEVForGame is called with
TierLists == UNION {[1..n -> TierValues] : n \in 0..MaxTiers}

\* calculateEVForGame(game) returns
Calculate ==
    /\ withEV = Null
    /\ withEV' = Some(GameWithEV(lotteryGame))
    /\ UNCHANGED <<lotteryGame, routeVars, callVars, cacheVars, pageVars>>

EvInit ==
    /\ RouteIdle
    /\ CallsStarted
    /\ CacheEmpty
    /\ PageIdle
    /\ \E priceFromAPI \in ApiPrices, tiers \in TierLists :
          lotteryGame = [gameNumber |-> 1,
                         price |-> PriceOrZero(priceFromAPI),
                         prizeTiers |-> tiers]
    /\ withEV = Null

EvNext == Calculate

EvSpec == EvInit /\ [][EvNext]_vars

\* ======================================================================
\* PageSpec: the prize table of one game page, as parseGamePage parses it
\* between page.content() and browser.close(). A text is a sequence of
\* tokens: one per character for "$", ",", ".", " " and the digits, one per
\* word for the words.
\* ======================================================================

DigitTokens == {"0", "1", "2", "3", "4", "5", "6", "7", "8", "9"}

\* the class [\d,] of the regular expressions
NumberTokens == DigitTokens \cup {","}

DigitValue(t) ==
    CASE t = "0" -> 0 [] t = "1" -> 1 [] t = "2" -> 2 [] t = "3" -> 3
      [] t = "4" -> 4 [] t = "5" -> 5 [] t = "6" -> 6 [] t = "7" -> 7
      [] t = "8" -> 8 [] t = "9" -> 9

\* the end of the longest run of tokens of the set that starts at i (i - 1
\* when there is none)
RunEnd(text, i, tokens) ==
    LET ends == {j \in (i - 1)..Len(text) :
                    \A k \in i..j : text[k] \in tokens}
    IN  CHOOSE j \in ends : \A e \in ends : e <= j

RECURSIVE IntOf(_)
IntOf(digits) ==
    IF Len(digits) = 0
    THEN 0
    ELSE IntOf(SubSeq(digits, 1, Len(digits) - 1)) * 10
         + DigitValue(digits[Len(digits)])

RECURSIVE Pow10(_)
Pow10(n) == IF n = 0 THEN 1 ELSE 10 * Pow10(n - 1)

\* parseNumber: text.replace(/[^0-9.]/g, ''), then parseFloat(cleaned) || 0.
\* parseFloat reads the leading digits, and a point with the digits after it;
\* without any digit it gives NaN, which || turns into 0.
parseNumber(text) ==
    LET cleaned == SelectSeq(text, LAMBDA t : t \in DigitTokens \cup {"."})
        intEnd == RunEnd(cleaned, 1, DigitTokens)
        whole == SubSeq(cleaned, 1, intEnd)
        fracEnd == IF intEnd < Len(cleaned) /\ cleaned[intEnd + 1] = "."
                   THEN RunEnd(cleaned, intEnd + 2, DigitTokens)
                   ELSE intEnd
        frac == SubSeq(cleaned, intEnd + 2, fracEnd)
    IN  IF Len(whole) = 0 /\ Len(frac) = 0
        THEN Num(0)
        ELSE Ratio(IntOf(whole) * Pow10(Len(frac)) + IntOf(frac),
                   Pow10(Len(frac)))

\* text.toLowerCase().includes(word), for the words the code looks for
Mentions(text, words) == \E i \in 1..Len(text) : text[i] \in words

\* parsePrizeValue
parsePrizeValue(prizeText, ticketPrice) ==
    IF Mentions(prizeText, {"FREE"}) \/ Mentions(prizeText, {"TICKET"})
    THEN Num(ticketPrice)
    ELSE parseNumber(prizeText)

\* the text has "1", any spaces, "in" from position p
OneInAt(text, p) ==
    /\ p <= Len(text)
    /\ text[p] = "1"
    /\ RunEnd(text, p + 1, {" "}) < Len(text)
    /\ text[RunEnd(text, p + 1, {" "}) + 1] = "in"

\* prizeAndOddsText.match(/^(\$[\d,]+?)(?=1\s*in)/): the shortest "$" with
\* digits and commas that "1 in" follows at once, or null
PrizeMatch(text) ==
    LET ends == {j \in 2..Len(text) :
                    /\ text[1] = "$"
                    /\ \A k \in 2..j : text[k] \in NumberTokens
                    /\ OneInAt(text, j + 1)}
    IN  IF ends = {}
        THEN Null
        ELSE Some(SubSeq(text, 1, CHOOSE j \in ends : \A e \in ends : j <= e))

\* where the number after the "1 in" that starts at p starts
AfterOneIn(text, p) ==
    RunEnd(text, RunEnd(text, p + 1, {" "}) + 2, {" "}) + 1

\* prizeAndOddsText.match(/1\s*in\s*([\d,]+(?:\.\d+)?)/i): the number after
\* the first "1 in" that a number follows, or null
OddsMatch(text) ==
    LET starts == {p \in 1..Len(text) :
                      /\ OneInAt(text, p)
                      /\ RunEnd(text, AfterOneIn(text, p), NumberTokens)
                             >= AfterOneIn(text, p)}
    IN  IF starts = {}
        THEN Null
        ELSE LET p == CHOOSE q \in starts : \A e \in starts : q <= e
                 from == AfterOneIn(text, p)
                 intEnd == RunEnd(text, from, NumberTokens)
                 fracEnd == IF intEnd < Len(text) /\ text[intEnd + 1] = "."
                            THEN RunEnd(text, intEnd + 2, DigitTokens)
                            ELSE intEnd
             IN  Some(SubSeq(text, from,
                             IF fracEnd >= intEnd + 2 THEN fracEnd ELSE intEnd))

\* statusText.match(/([\d,]+)\s*Word/i): the first run of digits and commas
\* that the word follows after any spaces, or null
CountMatch(text, word) ==
    LET starts == {i \in 1..Len(text) :
                      /\ text[i] \in NumberTokens
                      /\ LET j == RunEnd(text, i, NumberTokens)
                             w == RunEnd(text, j + 1, {" "}) + 1
                         IN  w <= Len(text) /\ text[w] = word}
    IN  IF starts = {}
        THEN Null
        ELSE LET i == CHOOSE q \in starts : \A e \in starts : q <= e
             IN  Some(SubSeq(text, i, RunEnd(text, i, NumberTokens)))

\* mutant: a tier is pushed without looking at its prize value
Accepts_AnyPrize(prizeValue, odds, prizesAtStart) ==
    odds.num > 0 /\ prizesAtStart.num > 0

\* if (prizeValue > 0 && odds > 0 && prizesAtStart > 0)
Accepts(prizeValue, odds, prizesAtStart) ==
    prizeValue.num > 0 /\ odds.num > 0 /\ prizesAtStart.num > 0

\* the callback of rows.each on one row, given its first two cells: the
\* tiers it pushes, none for a row it skips
ParseRow(prizeAndOddsText, statusText) ==
    LET prizeMatch == PrizeMatch(prizeAndOddsText)
        oddsMatch == OddsMatch(prizeAndOddsText)
        startMatch == CountMatch(statusText, "Start")
        remainingMatch == CountMatch(statusText, "Remaining")
    IN  IF Mentions(prizeAndOddsText, {"Prize"}) THEN <<>>
        ELSE IF prizeMatch = Null THEN <<>>
        ELSE IF oddsMatch = Null THEN <<>>
        ELSE IF startMatch = Null \/ remainingMatch = Null THEN <<>>
        ELSE LET prizeValue == parsePrizeValue(prizeMatch[1], 0)
                 odds == parseNumber(oddsMatch[1])
                 prizesAtStart == parseNumber(startMatch[1])
                 prizesRemaining == parseNumber(remainingMatch[1])
             IN  IF Accepts(prizeValue, odds, prizesAtStart)
                 THEN <<[prize |-> prizeMatch[1],
                         prizeValue |-> prizeValue,
                         odds |-> odds,
                         prizesAtStart |-> prizesAtStart,
                         prizesRemaining |-> prizesRemaining]>>
                 ELSE <<>>

\* the two cells of a row of the page
FirstCell(row) == row.prize \o row.odds
SecondCell(row) == row.start \o <<" ">> \o row.remaining

\* the tiers pushed for the rows, in page order
RECURSIVE ParseRows(_)
ParseRows(rows) ==
    IF Len(rows) = 0
    THEN <<>>
    ELSE ParseRows(SubSeq(rows, 1, Len(rows) - 1))
         \o ParseRow(FirstCell(rows[Len(rows)]), SecondCell(rows[Len(rows)]))

\* parseGamePage from the parsing to its return: null for zero tiers, else
\* the game
ParsedPage(pg) ==
    LET tiers == ParseRows(pg.rows)
    IN  [prizeTiers |-> tiers,
         returned |-> IF Len(tiers) = 0
                      THEN Null
                      ELSE Some([gameNumber |-> 1,
                                 price |-> PriceOrZero(pg.priceFromAPI),
                                 prizeTiers |-> tiers])]

\* what the prize part of a row's first cell reads: "$11", "$,", a free
\* ticket, or the header word
PrizeTexts ==
    {<<"$", "1", "1">>, <<"$", ",">>, <<"FREE", " ", "TICKET">>, <<"Prize">>}

\* the odds part of the first cell: "1 in 2.5", "1 in 0", or nothing
OddsTexts ==
    {<<"1", " ", "in", " ", "2", ".", "5">>, <<"1", " ", "in", " ", "0">>,
     <<>>}

\* the counts of the second cell: start and remaining
CountTexts ==
    {<<<<"3", " ", "Start">>, <<"1", " ", "Remaining">>>>,
     <<<<"3", " ", "Start">>, <<"5", " ", "Remaining">>>>,
     <<<<"0", " ", "Start">>, <<"0", " ", "Remaining">>>>,
     <<<<"3", " ", "Start">>, <<>>>>}

\* the rows a prize table can hold
PageRows ==
    {[prize |-> pt, odds |-> ot, start |-> ct[1], remaining |-> ct[2]] :
        pt \in PrizeTexts, ot \in OddsTexts, ct \in CountTexts}

\* the page has been parsed
ParsePage ==
    /\ parsed = Null
    /\ parsed' = Some(ParsedPage(page))
    /\ UNCHANGED <<page, routeVars, callVars, cacheVars, evVars>>

PageInit ==
    /\ RouteIdle
    /\ CallsStarted
    /\ CacheEmpty
    /\ EvIdle
    /\ \E priceFromAPI \in ApiPrices,
          rows \in UNION {[1..n -> PageRows] : n \in 0..MaxRows} :
          page = [priceFromAPI |-> priceFromAPI, rows |-> rows]
    /\ parsed = Null

PageNext == ParsePage

PageSpec == PageInit /\ [][PageNext]_vars

\* ======================================================================
\* Properties
\* ======================================================================

\* the request is inside a refresh cycle: between the call of getAllGames and
\* the end of insertOne
InCycle(r) == pc[r] \in {"fetch", "batch", "insert"}

\* the request is a background refresh past its isRefreshing check
InRefresh(r) == IsBackground(r) /\ InCycle(r)

\* C1: whatever the interleaving of the concurrent requests, at most one
\* background refresh past its isRefreshing check is running at any instant.
C1_OneBackgroundRefresh ==
    Cardinality({r \in Reqs : InRefresh(r)}) <= 1

\* two hit requests contend: one refresh runs while the other's callback is
\* still to run
C1_Witness ==
    \E r, q \in Reqs :
        /\ r # q
        /\ InRefresh(r)
        /\ IsBackground(q)
        /\ pc[q] = "after"

\* C2: at most one full refresh cycle is in flight process-wide, counting
\* the background refreshes and the live cycles of the miss branch.
C2_OneCycleInFlight ==
    Cardinality({r \in Reqs : InCycle(r)}) <= 1

\* C3: a background refresh that took the lock has released it when it ends,
\* on success and on failure: the lock is held exactly while some background
\* refresh is still inside its cycle; and, every await settling, a held lock
\* is eventually free again.
C3_LockReleased ==
    /\ [](isRefreshing <=> \E r \in Reqs : InRefresh(r))
    /\ isRefreshing ~> ~isRefreshing

\* one refresh failed (its catch block ran) and ended, and a later refresh of
\* another request has acquired the lock
C3_Witness ==
    \E r, q \in Reqs :
        /\ pc[q] = "done"
        /\ IsBackground(q)
        /\ "err" \in caught[q]
        /\ InRefresh(r)
        /\ isRefreshing

\* C4: a refresh request that arrives while isRefreshing is true is dropped:
\* its step ends the task, starts no scrape, builds and writes no snapshot
\* and leaves isRefreshing as it is; an ended task never runs again.
C4_DroppedNotQueued ==
    [][\A r \in Reqs :
          /\ (pc[r] = "after" /\ isRefreshing /\ pc'[r] # "after") =>
                /\ pc'[r] = "done"
                /\ isRefreshing'
                /\ snapshots' = snapshots
                /\ links'[r] = links[r]
                /\ item'[r] = item[r]
                /\ payload'[r] = Null
          /\ pc[r] = "done" => pc'[r] = "done"]_vars

\* a request was dropped (it ended without a payload and without an error)
\* while the refresh that held the lock is still running
C4_Witness ==
    \E r, q \in Reqs :
        /\ InRefresh(q)
        /\ IsBackground(r)
        /\ pc[r] = "done"
        /\ payload[r] = Null
        /\ caught[r] = {}

\* C5: a GET that found a stored snapshot has answered with that snapshot
\* from the cache before its background refresh starts, without any scrape
\* of its own, and whether or not isRefreshing is true.
C5_HitAnswersFirst ==
    \A r \in Reqs :
        IsBackground(r) =>
            /\ response[r] =
                   <<[status |-> 200, source |-> "MongoDB-Cache",
                      body |-> cachedData[r][1]]>>
            /\ cachedData[r][1] \in snapshots
            /\ pc[r] = "after" =>
                   links[r] = <<>> /\ item[r] = <<>> /\ payload[r] = Null

\* a hit has been answered and its refresh has not started, while another
\* request's refresh holds the lock
C5_Witness ==
    \E r, q \in Reqs :
        /\ r # q
        /\ InRefresh(q)
        /\ isRefreshing
        /\ pc[r] = "after"
        /\ response[r] # Null
        /\ response[r][1].source = "MongoDB-Cache"

\* the snapshot games a completed cycle of r must hold: one game with its EV
\* fields for each link whose processor call returned a game, in link order
ExpectedGames(r) ==
    LET n == Len(links[r])
        got == SelectSeq([k \in 1..n |-> k], LAMBDA k : item[r][k] = "game")
    IN  [j \in 1..Len(got) |->
            [gameNumber |-> links[r][got[j]].gameNumber, withEV |-> TRUE]]

\* the miss branch's successful answer
LiveAnswer(r) ==
    <<[status |-> 200, source |-> "Live-Scrape", body |-> payload[r][1]]>>

\* the request has left GET's first try/catch without a cached snapshot
OnMissBranch(r) ==
    ~IsBackground(r) /\ pc[r] \in {"fetch", "batch", "insert", "done"}

C7_PersistenceErrorIsAMiss ==
    \A r \in Reqs :
        (caught[r] \cap {"dbError", "writeErr"} # {}) =>
            /\ OnMissBranch(r)
            /\ (pc[r] = "done" /\ "scrapeError" \notin caught[r]) =>
                  /\ payload[r] # Null
                  /\ payload[r][1].games = ExpectedGames(r)
                  /\ response[r] = LiveAnswer(r)

\* findOne threw, the live scrape found a game, insertOne threw too, and the
\* answer is the payload
C7_Witness ==
    \E r \in Reqs :
        /\ {"dbError", "writeErr"} \subseteq caught[r]
        /\ pc[r] = "done"
        /\ payload[r] # Null
        /\ response[r] = LiveAnswer(r)
        /\ payload[r][1].games # <<>>

\* C8: the answer is the 500 failure exactly when the request's own live
\* cycle threw; a failed background refresh ends in its catch block with the
\* lock released, and the request's answer is still its cache hit.
C8_OnlyLiveCycleFails ==
    \A r \in Reqs :
        /\ response[r] # Null =>
              (response[r][1].status = 500 <=> "scrapeError" \in caught[r])
        /\ "scrapeError" \in caught[r] =>
              /\ ~IsBackground(r)
              /\ \E k \in DOMAIN item[r] : item[r][k] = "rejected"
              /\ response[r] =
                     <<[status |-> 500, source |-> "none",
                        body |-> [error |-> "Failed to fetch data"]]>>
        /\ "err" \in caught[r] =>
              /\ IsBackground(r)
              /\ pc[r] = "done"
              /\ response[r] =
                     <<[status |-> 200, source |-> "MongoDB-Cache",
                        body |-> cachedData[r][1]]>>

\* one request's background refresh failed and another request's live cycle
\* threw: only the second got the 500
C8_Witness ==
    \E r, q \in Reqs :
        /\ "err" \in caught[r]
        /\ response[r][1].status = 200
        /\ "scrapeError" \in caught[q]
        /\ response[q][1].status = 500

\* C9: when the catalog fetch failed, getAllGames returned the empty list and
\* the cycle went on to a payload of zero games and never threw; the miss
\* branch answers 200 with that payload.
C9_CatalogFailureGivesEmptySnapshot ==
    \A r \in Reqs :
        "linksError" \in caught[r] =>
            /\ links[r] = <<>>
            /\ pc[r] \in {"insert", "done"}
            /\ "scrapeError" \notin caught[r]
            /\ payload[r] # Null
            /\ payload[r][1].games = <<>>
            /\ (~IsBackground(r) /\ pc[r] = "done") => response[r] = LiveAnswer(r)

\* the endpoint lists Scratch games, the fetch failed, and the miss branch
\* answered 200 with zero games
C9_Witness ==
    \E r \in Reqs :
        /\ "linksError" \in caught[r]
        /\ ScratchLinks(upstream) # <<>>
        /\ ~IsBackground(r)
        /\ pc[r] = "done"
        /\ response[r][1].status = 200
        /\ response[r][1].body.games = <<>>

\* the processor calls of r's run that have started and not settled
InFlight(r) == {k \in DOMAIN item[r] : item[r][k] = "running"}

\* C10: during one getAllGames run the processor calls that have started and
\* not finished never exceed MAX_CONCURRENT_BROWSERS, whatever the number of
\* links.
C10_AtMostCInFlight ==
    \A r \in Reqs : Cardinality(InFlight(r)) <= MAX_CONCURRENT_BROWSERS

\* a later batch of a catalog longer than one batch runs at the ceiling
C10_Witness ==
    \E r \in Reqs :
        /\ Len(links[r]) > 2 * MAX_CONCURRENT_BROWSERS
        /\ idx[r] = MAX_CONCURRENT_BROWSERS
        /\ Cardinality(InFlight(r)) = MAX_CONCURRENT_BROWSERS

\* the batch (0, 1, ...) that processBatch puts item k into
BatchOf(k) == (k - 1) \div MAX_CONCURRENT_BROWSERS

\* C11: processBatch has started no item of a later batch while an item of
\* an earlier batch has not finished: whenever an item has been started,
\* every item of every earlier batch has resolved.
C11_BatchBarrier ==
    \A r \in Reqs :
        \A j, k \in DOMAIN item[r] :
            (BatchOf(j) < BatchOf(k) /\ item[r][k] # "pending") =>
                item[r][j] \in {"game", "null"}

\* the second batch of a run is in flight, after a first batch that ended
\* with a game and with a null
C11_Witness ==
    \E r \in Reqs :
        /\ Len(links[r]) > MAX_CONCURRENT_BROWSERS
        /\ idx[r] = MAX_CONCURRENT_BROWSERS
        /\ item[r][1] = "game"
        /\ item[r][2] = "null"
        /\ item[r][MAX_CONCURRENT_BROWSERS + 1] = "running"

\* what the processor call of item k of r's run resolved to
ProcessorResult(r, k) ==
    IF item[r][k] = "game"
    THEN <<[gameNumber |-> links[r][k].gameNumber]>>
    ELSE <<>>

\* processBatch has returned to getAllGames in r's run
BatchReturned(r) == links[r] # <<>> /\ idx[r] >= Len(links[r])

\* C12: when no processor call rejects, processBatch returns a list as long
\* as its input whose element i is what the processor call on input i
\* resolved to, in whatever order the calls of a batch settled; until then
\* results holds just that for the batches joined so far.
C12_ResultsInInputOrder ==
    \A r \in Reqs :
        /\ Len(results[r]) = Min(idx[r], Len(links[r]))
        /\ \A k \in 1..Len(results[r]) : results[r][k] = ProcessorResult(r, k)
        /\ BatchReturned(r) => Len(results[r]) = Len(links[r])

\* processBatch returned after more than one batch, with a game in the first
\* batch, a null in it, and a game in the last batch
C12_Witness ==
    \E r \in Reqs :
        /\ BatchReturned(r)
        /\ Len(links[r]) > MAX_CONCURRENT_BROWSERS
        /\ results[r][1] = <<>>
        /\ results[r][2] # <<>>
        /\ results[r][Len(links[r])] # <<>>

\* the place in r's catalog of the game numbered num
PlaceOf(r, num) == CHOOSE k \in 1..Len(links[r]) : links[r][k].gameNumber = num

\* C13: the games of a cycle that ended (getAllGames's list, each game with
\* its EV fields) are exactly the games whose scrape returned non-null, in
\* catalog order: as many as there are such links, each of them one of
\* those links, in strictly ascending catalog place (so none twice).
C13_NonNullInCatalogOrder ==
    \A r \in Reqs :
        payload[r] # Null =>
            LET games == payload[r][1].games
                scraped == {k \in 1..Len(links[r]) : item[r][k] = "game"}
            IN  /\ Len(games) = Cardinality(scraped)
                /\ \A j \in 1..Len(games) :
                       \E k \in scraped :
                           games[j].gameNumber = links[r][k].gameNumber
                /\ \A j \in 1..Len(games) - 1 :
                       PlaceOf(r, games[j].gameNumber) <
                           PlaceOf(r, games[j + 1].gameNumber)

\* a cycle ended with two games around a link whose scrape returned null
C13_Witness ==
    \E r \in Reqs :
        /\ payload[r] # Null
        /\ Len(links[r]) > MAX_CONCURRENT_BROWSERS
        /\ item[r][1] = "game"
        /\ item[r][2] = "null"
        /\ item[r][Len(links[r])] = "game"
        /\ Len(payload[r][1].games) >= 2

\* the catalog size the example of C14 is about
SevenInputs == 2 * MAX_CONCURRENT_BROWSERS + 1

\* the processor calls of r's run that have been started
Started(r) == {k \in DOMAIN item[r] : item[r][k] # "pending"}

\* C14 as stated: with a ceiling of 3 and 7 inputs, exactly 3 scrapes are in
\* flight at every instant of the first two batches and exactly 1 at every
\* instant of the last.
C14_ExactlyCInFlight ==
    \A r \in Reqs :
        (Len(links[r]) = SevenInputs /\ pc[r] = "batch") =>
            Cardinality(InFlight(r)) =
                IF idx[r] < 2 * MAX_CONCURRENT_BROWSERS
                THEN MAX_CONCURRENT_BROWSERS
                ELSE 1

\* C14, amended: with a ceiling of 3 and 7 inputs, each of the first two
\* batches starts exactly 3 scrapes and the last batch starts exactly 1; the
\* scrapes in flight are calls of the current batch that have not settled
\* yet, so at most 3 during the first two batches and at most 1 during the
\* last.
C14_BatchSizes ==
    \A r \in Reqs :
        (Len(links[r]) = SevenInputs /\ pc[r] = "batch") =>
            LET current == IF idx[r] < 2 * MAX_CONCURRENT_BROWSERS
                           THEN (idx[r] + 1)..(idx[r] + MAX_CONCURRENT_BROWSERS)
                           ELSE {SevenInputs}
            IN  /\ idx[r] \in {0, MAX_CONCURRENT_BROWSERS,
                                2 * MAX_CONCURRENT_BROWSERS}
                /\ Started(r) = 1..idx[r] \cup current
                /\ InFlight(r) \subseteq current

\* the last batch of seven inputs is in flight with its single scrape
C14_Witness ==
    \E r \in Reqs :
        /\ Len(links[r]) = SevenInputs
        /\ pc[r] = "batch"
        /\ idx[r] = 2 * MAX_CONCURRENT_BROWSERS
        /\ InFlight(r) = {SevenInputs}

\* the links of the Scratch games the endpoint lists
ListedScratch ==
    LET at == SelectSeq([k \in 1..Len(upstream) |-> k],
                        LAMBDA k : upstream[k].gameType = "Scratch")
    IN  [j \in 1..Len(at) |-> [gameNumber |-> upstream[at[j]].id]]

\* C17: getAllGameLinks never throws. However the catalog request ends, the
\* step that follows it runs no catch block of the cycle; after a network
\* error, a non-2xx answer or a decoding error the list is empty, otherwise
\* it is the listed Scratch games; and an empty list leads to the same
\* sequel (no scrape, a payload of zero games) whether it comes from a
\* failure or from a catalog without Scratch games.
C17_LinksNeverThrow ==
    [][\A r \in Reqs :
          (pc[r] = "fetch" /\ pc'[r] # "fetch") =>
              /\ caught'[r] \cap {"scrapeError", "err"} = {}
              /\ links'[r] = IF "linksError" \in caught'[r]
                             THEN <<>>
                             ELSE ListedScratch
              /\ links'[r] = <<>> =>
                     /\ pc'[r] \in {"insert", "done"}
                     /\ item'[r] = <<>>
                     /\ payload'[r] # Null
                     /\ payload'[r][1].games = <<>>]_vars

\* the request for a catalog that lists Scratch games failed, and the cycle
\* is past getAllGameLinks with an empty list and no scrape
C17_Witness ==
    \E r \in Reqs :
        /\ "linksError" \in caught[r]
        /\ ListedScratch # <<>>
        /\ links[r] = <<>>
        /\ pc[r] = "insert"
        /\ item[r] = <<>>

\* C15: a failure while one game is scraped never aborts the batch: the call
\* for that game resolves (to null) and never rejects, so Promise.all never
\* rejects and processBatch returns the results of the other games.
C15_FailureNeverAborts ==
    /\ \A c \in Calls : settled[c] # "rejected"
    /\ joined # "rejected"

\* C16: a parseGamePage call that launched a browser has closed it when the
\* call has settled, whichever way it settled.
C16_BrowserClosedWhenSettled ==
    \A c \in Calls :
        (stage[c] = "settled" /\ browser[c] # "undefined") =>
            browser[c] = "closed"

\* C18: when get(k) is called after a set(k, v, ttl) that no set, invalidate
\* or clear of k followed, it returns v and leaves the entry alone while the
\* clock has not passed the instant of the set plus ttl; once the clock has
\* passed it, get(k) returns null and the Map has no entry for k.
C18_GetWithinTtl ==
    [][\A k \in CacheKeys :
          (/\ ret'.op = "get"
           /\ ret'.key = k
           /\ now' = now
           /\ lastSet[k] # Null) =>
              IF now <= lastSet[k][1].at + lastSet[k][1].ttlMs
              THEN /\ ret'.value = <<lastSet[k][1].data>>
                   /\ store'[k] = store[k]
                   /\ store[k] # <<>>
              ELSE /\ ret'.value = <<>>
                   /\ store'[k] = <<>>]_vars

\* a get returned null, and the Map lost the entry, for a key whose last set
\* no invalidate or clear followed: the clock had passed its deadline
C18_Witness ==
    \E k \in CacheKeys :
        /\ ret.op = "get"
        /\ ret.key = k
        /\ ret.value = <<>>
        /\ lastSet[k] # Null
        /\ lastSet[k][1].ttlMs > 0
        /\ now = lastSet[k][1].at + lastSet[k][1].ttlMs + 1
        /\ store[k] = <<>>

\* C19: a new write fully replaces the entry written before it: once a
\* request's insertOne has stored its payload, that payload and no other is
\* what a read returns.
C19_NewWriteReplaces ==
    [][\A r \in Reqs :
          (pc[r] = "insert" /\ pc'[r] = "done" /\ snapshots' # snapshots) =>
              {d \in snapshots' :
                  \A e \in snapshots' : e.updatedAt <= d.updatedAt}
                  = {payload[r][1]}]_vars

\* the document is the payload one cycle built, or the one stored before the
\* process started
WholeSnapshot(d) ==
    \/ d = [updatedAt |-> 0,
            games |-> <<[gameNumber |-> 1, withEV |-> TRUE]>>]
    \/ \E q \in Reqs : payload[q] = <<d>>

\* C20: whatever write runs beside it, a read returns a whole snapshot that
\* has been committed: every stored document, and so every document a
\* request has read, is the payload of a single cycle (its updatedAt and its
\* full games list), and the step that ends a read hands over a document the
\* collection holds at that instant.
C20_ReadsAreWholeSnapshots ==
    /\ [](/\ \A d \in snapshots : WholeSnapshot(d)
          /\ \A r \in Reqs :
                cachedData[r] # Null => WholeSnapshot(cachedData[r][1]))
    /\ [][\A r \in Reqs :
            (pc[r] = "findOne" /\ cachedData'[r] # <<>>) =>
                cachedData'[r][1] \in snapshots]_vars

\* a request has read the snapshot, with a game in it, that another request's
\* background refresh committed
C20_Witness ==
    \E r, q \in Reqs :
        /\ r # q
        /\ IsBackground(q)
        /\ payload[q] # Null
        /\ payload[q][1].games # <<>>
        /\ cachedData[r] = payload[q]

\* the requests whose getCollection call has made a MongoClient and awaits
\* its connect()
Connecting == {r \in Reqs : pc[r] = "connect"}

\* C27: whatever the interleaving of the getCollection calls, at most one
\* MongoClient exists in the process: at most one is being connected, and
\* none is while the module holds a connected one.
C27_OneMongoClient ==
    Cardinality(Connecting) + (IF client # 0 THEN 1 ELSE 0) <= 1

\* C28: when tempClient.connect() has thrown, getCollection has rejected and
\* the module variables client and db are both null.
C28_FailedConnectLeavesNull ==
    [][\A r \in Reqs :
          (pc[r] = "connect" /\ "dbError" \in caught'[r]) =>
              client' = 0 /\ db' = 0]_vars

\* C29: GET looks at no age: with the database reachable and a snapshot
\* stored, the step that ends findOne is a hit however far the clock is past
\* the snapshot's updatedAt: it answers 200 from the cache with a stored
\* snapshot, has run nothing of a cycle of its own, and leaves the refresh
\* registered to run after the response.
C29_HitWhateverTheAge ==
    [][\A r \in Reqs :
          (/\ pc[r] = "findOne"
           /\ pc'[r] # "findOne"
           /\ snapshots # {}
           /\ "dbError" \notin caught'[r]) =>
              /\ pc'[r] = "after"
              /\ cachedData'[r] # <<>>
              /\ cachedData'[r][1] \in snapshots
              /\ response'[r] =
                     <<[status |-> 200, source |-> "MongoDB-Cache",
                        body |-> cachedData'[r][1]]>>
              /\ links'[r] = <<>>
              /\ payload'[r] = <<>>]_vars

\* a request is a hit on a snapshot written before the process started, after
\* a cycle of this process has read the clock again
C29_Witness ==
    \E r \in Reqs :
        /\ pc[r] = "after"
        /\ response[r] # Null
        /\ response[r][1].source = "MongoDB-Cache"
        /\ clock - cachedData[r][1].updatedAt >= 2

\* the background refresh of r ended without its catch block after its
\* catalog fetch had failed
RefreshedOnFailedCatalog(r) ==
    /\ IsBackground(r)
    /\ pc[r] = "done"
    /\ "linksError" \in caught[r]
    /\ "err" \notin caught[r]

\* C30: a background refresh whose catalog fetch failed, and whose insertOne
\* did not throw, has stored a snapshot of zero games with an updatedAt later
\* than that of the snapshot its request was answered with; from then on no
\* read returns an older snapshot, and a read that returns this one is
\* answered with its empty games list.
C30_FailedCatalogOverwrites ==
    /\ [](\A r \in Reqs :
            RefreshedOnFailedCatalog(r) =>
                /\ payload[r] # Null
                /\ payload[r][1].games = <<>>
                /\ payload[r][1].updatedAt > cachedData[r][1].updatedAt
                /\ payload[r][1] \in snapshots)
    /\ [][\A r, q \in Reqs :
            (/\ RefreshedOnFailedCatalog(r)
             /\ pc[q] = "findOne"
             /\ cachedData'[q] # <<>>) =>
                /\ cachedData'[q][1].updatedAt >= payload[r][1].updatedAt
                /\ cachedData'[q][1].updatedAt = payload[r][1].updatedAt =>
                       response'[q] =
                           <<[status |-> 200, source |-> "MongoDB-Cache",
                              body |-> [updatedAt |-> payload[r][1].updatedAt,
                                        games |-> <<>>]]>>]_vars

\* a request was answered with a snapshot that holds a game, its refresh
\* failed to fetch a catalog that lists games, and the next request was
\* answered with the empty snapshot that refresh stored
C30_Witness ==
    \E r, q \in Reqs :
        /\ r # q
        /\ RefreshedOnFailedCatalog(r)
        /\ cachedData[r][1].games # <<>>
        /\ ListedScratch # <<>>
        /\ cachedData[q] = payload[r]
        /\ response[q] # Null
        /\ response[q][1].body.games = <<>>

\* the estimates of the tiers that have odds and a count: odds x count
Products(tiers, count(_)) ==
    LET usable == SelectSeq(tiers, LAMBDA tier :
                                tier.odds > 0 /\ count(tier) > 0)
    IN  [k \in 1..Len(usable) |-> usable[k].odds * count(usable[k])]

\* the k-th smallest of the values xs: fewer than k of them are smaller, and
\* at least k are no larger
KthSmallest(xs, k) ==
    CHOOSE v \in {xs[i] : i \in 1..Len(xs)} :
        /\ Cardinality({i \in 1..Len(xs) : xs[i] < v}) < k
        /\ Cardinality({i \in 1..Len(xs) : xs[i] <= v}) >= k

\* x is the median of the values xs, and 0 when there is none
IsMedianOf(x, xs) ==
    LET n == Len(xs)
    IN  /\ x.den > 0
        /\ IF n = 0
           THEN x.num = 0
           ELSE IF n % 2 = 1
                THEN x.num = x.den * KthSmallest(xs, (n + 1) \div 2)
                ELSE 2 * x.num =
                         x.den * (KthSmallest(xs, n \div 2)
                                  + KthSmallest(xs, (n \div 2) + 1))

\* C21: estimatedTotalTickets is 0 when no tier has odds > 0 and
\* prizesAtStart > 0, and otherwise the median of odds x prizesAtStart over
\* exactly those tiers (the middle product for an odd count, the mean of the
\* two middle products for an even count); estimatedRemainingTickets is the
\* same with prizesRemaining.
C21_EstimatesAreMedians ==
    withEV # Null =>
        /\ IsMedianOf(withEV[1].estimatedTotalTickets,
                      Products(lotteryGame.prizeTiers,
                               LAMBDA tier : tier.prizesAtStart))
        /\ IsMedianOf(withEV[1].estimatedRemainingTickets,
                      Products(lotteryGame.prizeTiers,
                               LAMBDA tier : tier.prizesRemaining))

\* a game of three tiers, one of them without odds: the total estimate is
\* the mean, not a whole number, of the two products left
C21_Witness ==
    /\ withEV # Null
    /\ Len(lotteryGame.prizeTiers) = 3
    /\ \E k \in 1..3 : lotteryGame.prizeTiers[k].odds = 0
    /\ withEV[1].estimatedTotalTickets.den = 2

\* the sum over the tiers of prizeValue x count
PoolOf(tiers, count(_)) ==
    LET RECURSIVE upTo(_)
        upTo(k) == IF k = 0
                   THEN 0
                   ELSE upTo(k - 1) + tiers[k].prizeValue * count(tiers[k])
    IN  upTo(Len(tiers))

\* ev is pool / tickets, and 0 when tickets is 0
IsPoolPerTicket(ev, pool, tickets) ==
    /\ ev.den > 0
    /\ IF tickets.num = 0
       THEN ev.num = 0
       ELSE ev.num * tickets.num = pool * tickets.den * ev.den

\* net is ev - price
IsNetOf(net, ev, price) ==
    /\ net.den > 0
    /\ net.num * ev.den = (ev.num - price * ev.den) * net.den

\* C22: initialEV is the sum over all tiers of prizeValue x prizesAtStart
\* divided by estimatedTotalTickets, and 0 when that estimate is 0; currentEV
\* is the same with prizesRemaining and estimatedRemainingTickets; each net
\* EV is the EV minus the price; the game's own fields come back unchanged.
C22_EvFormulas ==
    withEV # Null =>
        LET out == withEV[1]
            tiers == lotteryGame.prizeTiers
        IN  /\ IsPoolPerTicket(out.initialEV,
                               PoolOf(tiers, LAMBDA tier : tier.prizesAtStart),
                               out.estimatedTotalTickets)
            /\ IsPoolPerTicket(out.currentEV,
                               PoolOf(tiers, LAMBDA tier : tier.prizesRemaining),
                               out.estimatedRemainingTickets)
            /\ IsNetOf(out.netInitialEV, out.initialEV, lotteryGame.price)
            /\ IsNetOf(out.netCurrentEV, out.currentEV, lotteryGame.price)
            /\ out.gameNumber = lotteryGame.gameNumber
            /\ out.price = lotteryGame.price
            /\ out.prizeTiers = lotteryGame.prizeTiers

\* a priced game whose pools and estimates differ between start and now: the
\* two EVs differ, and the net current EV is a loss
C22_Witness ==
    /\ withEV # Null
    /\ lotteryGame.price > 0
    /\ Len(lotteryGame.prizeTiers) >= 2
    /\ withEV[1].initialEV # withEV[1].currentEV
    /\ withEV[1].currentEV.num > 0
    /\ withEV[1].netCurrentEV.num < 0

\* C23: evPerDollar is currentEV / price when price > 0 and 0 when price is
\* 0 (the price of a game scraped without a catalog price); no field of the
\* result comes from a division by zero.
C23_EvPerDollar ==
    withEV # Null =>
        LET out == withEV[1]
            price == lotteryGame.price
        IN  /\ out.evPerDollar.den > 0
            /\ IF price > 0
               THEN out.evPerDollar.num * out.currentEV.den * price =
                        out.currentEV.num * out.evPerDollar.den
               ELSE out.evPerDollar.num = 0
            /\ \A x \in {out.initialEV, out.currentEV, out.netInitialEV,
                          out.netCurrentEV, out.estimatedTotalTickets,
                          out.estimatedRemainingTickets} : x.den > 0

\* a game without a price whose current EV is not 0: evPerDollar is 0
C23_Witness ==
    /\ withEV # Null
    /\ lotteryGame.price = 0
    /\ withEV[1].currentEV.num > 0
    /\ withEV[1].evPerDollar.num = 0

\* the fraction x is at most the fraction y
AtMost(x, y) == x.num * y.den <= y.num * x.den

\* C24: every prize tier of a parsed page has prizesRemaining <=
\* prizesAtStart.
C24_RemainingAtMostStart ==
    parsed # Null =>
        \A k \in 1..Len(parsed[1].prizeTiers) :
            AtMost(parsed[1].prizeTiers[k].prizesRemaining,
                   parsed[1].prizeTiers[k].prizesAtStart)

\* C25: parseGamePage returns a game only with at least one tier, and null
\* for a page of which no row is accepted; the game holds the tiers pushed,
\* and every one of them has prizeValue > 0, odds > 0 and prizesAtStart > 0.
C25_TiersArePositive ==
    parsed # Null =>
        LET tiers == parsed[1].prizeTiers
        IN  /\ parsed[1].returned = <<>> <=> Len(tiers) = 0
            /\ parsed[1].returned # <<>> =>
                   parsed[1].returned[1].prizeTiers = tiers
            /\ \A k \in 1..Len(tiers) :
                   /\ tiers[k].prizeValue.num > 0 /\ tiers[k].prizeValue.den > 0
                   /\ tiers[k].odds.num > 0 /\ tiers[k].odds.den > 0
                   /\ tiers[k].prizesAtStart.num > 0
                   /\ tiers[k].prizesAtStart.den > 0

\* a page of two rows, one accepted and one with a prize that parses to 0,
\* gave a game of one tier
C25_Witness ==
    /\ parsed # Null
    /\ Len(page.rows) = 2
    /\ \E k \in 1..2 : page.rows[k].prize = <<"$", ",">>
                         /\ page.rows[k].odds # <<>>
                         /\ page.rows[k].remaining # <<>>
                         /\ page.rows[k].start[1] = "3"
    /\ parsed[1].returned # <<>>
    /\ Len(parsed[1].prizeTiers) = 1

\* the row reads as a free ticket with odds above 0 and prizes at start
FreeTicketRow(row) ==
    /\ \E i \in 1..Len(row.prize) : row.prize[i] \in {"FREE", "TICKET"}
    /\ row.odds = <<"1", " ", "in", " ", "2", ".", "5">>
    /\ row.start = <<"3", " ", "Start">>
    /\ row.remaining # <<>>

\* C26: a row whose prize text mentions "free" or "ticket", with valid odds
\* and start count, is accepted as a tier whose prizeValue is the game's
\* ticket price.
C26_FreeTicketIsPriced ==
    parsed # Null =>
        \A k \in 1..Len(page.rows) :
            FreeTicketRow(page.rows[k]) =>
                \E j \in 1..Len(parsed[1].prizeTiers) :
                    /\ parsed[1].prizeTiers[j].prize = page.rows[k].prize
                    /\ parsed[1].prizeTiers[j].prizeValue.num =
                           (IF page.priceFromAPI = <<>>
                            THEN 0
                            ELSE page.priceFromAPI[1])
                           * parsed[1].prizeTiers[j].prizeValue.den

====
